---- MODULE Spec2Model ----
(***************************************************************************)
(* The JSON language-server adapter (crates/zed/src/languages/json.rs):    *)
(* fetch_server_binary, cached_server_binary / installation_test_binary    *)
(* (both get_cached_server_binary) run by two callers against one          *)
(* container directory on disk and one node runtime (the package           *)
(* transport).  Every await point of the async functions is a step, so     *)
(* calls interleave and can be dropped (cancelled) between steps.          *)
(* Spec is the binary cache and the installer; ResolverSpec is the         *)
(* version resolver feeding the installer; ConfigSpec is the configuration *)
(* builder (initialization_options, workspace_configuration,               *)
(* schema_file_match) over a host whose registries change.                 *)
(***************************************************************************)
EXTENDS Naturals, Sequences, FiniteSets, TLC

\* fs:      the disk, a map from each existing path to its kind
\*          ("dir", "file", "unknown" for an entry whose type cannot be
\*          read, "noaccess" for a directory that cannot be listed).
\* calls:   for each task, the locals of the call it is in or last made.
\* last:    what the call that returned most recently left behind.
\* started: how many calls the host has made.
\* host:    what the application context and the language registry hold:
\*          the action names, the staff flag, the language names.
\* docs:    the configuration calls made so far, each with the host state
\*          it ran in and the document it returned.
\* matched: the last path given to schema_file_match, and what came back.
VARIABLES fs, calls, last, started, host, docs, matched

vars == <<fs, calls, last, started, host, docs, matched>>

\* The state only the configuration builder reads or (in docs, matched)
\* is observed through.
configVars == <<host, docs, matched>>

\* The state of the binary cache and the installer.
binaryVars == <<fs, calls, last, started>>

(* ------------------------------ bounds --------------------------------- *)

\* Total number of adapter calls begun in one behaviour.
MaxCalls == 2

\* The tasks that may be inside an adapter call at the same time.
Callers == {1, 2}

\* Names of the version subdirectories found on disk at start.
VersionDirs == {"1.2.2", "1.2.3"}

\* What an entry of the container directory may be at start.
EntryShapes == {"absent", "file", "unknown", "empty_dir", "valid_dir"}

\* Version strings the resolver may hand to fetch_server_binary.
Versions == {"1.2.2", "1.2.3"}

(* ----------------------------- constants ------------------------------- *)

SERVER_PATH ==
    <<"node_modules", "vscode-json-languageserver", "bin", "vscode-json-languageserver">>

PackageName == "vscode-json-languageserver"

\* The container directory the host passes to every call.
ContainerDir == <<"json-language-server">>

\* What NodeRuntime::binary_path reports when it succeeds.
NodeBinaryPath == <<"node", "bin", "node">>

\* Box<dyn Any> version values: the String the resolver produces, and a
\* value of another concrete type.
StringVersion(v) == [type |-> "String", value |-> v]

NoVersion == [type |-> "none", value |-> ""]

VersionValues == {StringVersion(v) : v \in Versions} \cup {[type |-> "u32", value |-> "0"]}

(* ----------------------------- file system ----------------------------- *)

\* A file system maps each existing path to its kind.
MkFs(pairs) == [p \in {x[1] : x \in pairs} |-> (CHOOSE x \in pairs : x[1] = p)[2]]

EmptyFs == MkFs({})

Prefixes(p, n) == {SubSeq(p, 1, k) : k \in n..Len(p)}

\* PathBuf::join / Path::join
Join(base, rel) == base \o rel

\* fs::metadata(path).is_ok(), Path::exists()
Exists(f, p) == p \in DOMAIN f

IsDir(f, p) == Exists(f, p) /\ f[p] = "dir"

\* The immediate entries of a directory.
Children(f, d) == {p \in DOMAIN f : Len(p) = Len(d) + 1 /\ SubSeq(p, 1, Len(d)) = d}

\* An installed package tree rooted at dir: every directory on the way to
\* the file, then the file.
FileWithParents(dir, rel) ==
    {<<p, IF p = Join(dir, rel) THEN "file" ELSE "dir">> : p \in Prefixes(Join(dir, rel), Len(dir) + 1)}

Tree(root, shape) ==
    CASE shape = "absent" -> {}
      [] shape = "file" -> {<<root, "file">>}
      [] shape = "unknown" -> {<<root, "unknown">>}
      [] shape = "empty_dir" -> {<<root, "dir">>}
      [] shape = "valid_dir" -> {<<root, "dir">>} \cup FileWithParents(root, SERVER_PATH)

\* The shapes the entry called n takes at start: the older name takes
\* every shape, the newer one is absent or an install.
ShapesOf(n) == IF n = "1.2.2" THEN EntryShapes ELSE {"absent", "valid_dir"}

\* The container directory as earlier sessions may have left it: missing,
\* unreadable, or a directory holding any mix of entries.
InitialDisks ==
    {EmptyFs, MkFs({<<ContainerDir, "noaccess">>})}
    \cup {MkFs({<<ContainerDir, "dir">>}
               \cup UNION {Tree(Join(ContainerDir, <<n>>), sh[n]) : n \in VersionDirs})
          : sh \in {t \in [VersionDirs -> EntryShapes] : \A n \in VersionDirs : t[n] \in ShapesOf(n)}}

\* Every order in which read_dir may yield the entries of a directory.
Orders(S) ==
    {s \in [1..Cardinality(S) -> S] : \A i, j \in 1..Cardinality(S) : i # j => s[i] # s[j]}

(* ------------------------- the package transport ----------------------- *)

\* The pieces npm writes for the package: the entry point, and the module
\* the entry point loads.
InstallParts == {"bin", "out"}

PartPath(part) ==
    IF part = "bin" THEN SERVER_PATH
    ELSE <<"node_modules", "vscode-json-languageserver", "out", "jsonServerMain.js">>

WriteFiles(f, pairs) ==
    [p \in DOMAIN f \cup {x[1] : x \in pairs} |->
        IF p \in DOMAIN f THEN f[p] ELSE (CHOOSE x \in pairs : x[1] = p)[2]]

\* npm_install_packages writing one piece of the package into dir.
NpmWrite(f, dir, part) == WriteFiles(f, FileWithParents(dir, PartPath(part)))

\* The package is completely installed in dir.
InstallComplete(f, dir) == \A part \in InstallParts : Exists(f, Join(dir, PartPath(part)))

(* ------------------------------ results -------------------------------- *)

NoBinary == [path |-> <<>>, arguments |-> <<>>]

Result(tag, err, binary) == [tag |-> tag, err |-> err, binary |-> binary]

Pending == Result("Pending", "none", NoBinary)

\* The server started on another transport than stdio.
ArgumentsNodeIpc(server_path) == <<server_path, "--node-ipc">>

server_binary_arguments(server_path) == <<server_path, "--stdio">>

LanguageServerBinary(path, server_path) ==
    [path |-> path, arguments |-> server_binary_arguments(server_path)]

\* fetch_server_binary: container_dir.join(SERVER_PATH)
FetchServerPath(container_dir) == Join(container_dir, SERVER_PATH)

\* get_cached_server_binary: last_version_dir.join(SERVER_PATH)
CachedServerPath(last_version_dir) == Join(last_version_dir, SERVER_PATH)

\* The existence check left out: every call installs.
MetadataIsErrAlways(f, server_path) == TRUE

\* fetch_server_binary: fs::metadata(&server_path).await.is_err()
MetadataIsErr(f, server_path) == ~Exists(f, server_path)

\* The scan without the is_dir test: any readable entry is kept.
RECURSIVE ScanLoopAnyEntry(_, _, _)
ScanLoopAnyEntry(f, entries, last_version_dir) ==
    IF entries = <<>>
    THEN [err |-> FALSE, last_version_dir |-> last_version_dir]
    ELSE LET entry == Head(entries) IN
         IF f[entry] = "unknown"
         THEN [err |-> TRUE, last_version_dir |-> last_version_dir]
         ELSE ScanLoopAnyEntry(f, Tail(entries), <<entry>>)

\* The loop keeping the first directory it meets instead of the last.
RECURSIVE ScanLoopKeepFirst(_, _, _)
ScanLoopKeepFirst(f, entries, last_version_dir) ==
    IF entries = <<>>
    THEN [err |-> FALSE, last_version_dir |-> last_version_dir]
    ELSE LET entry == Head(entries) IN
         IF f[entry] = "unknown"
         THEN [err |-> TRUE, last_version_dir |-> last_version_dir]
         ELSE ScanLoopKeepFirst(f, Tail(entries),
                                IF f[entry] = "dir" /\ last_version_dir = <<>>
                                THEN <<entry>> ELSE last_version_dir)

\* get_cached_server_binary: the while-let loop over the entries; an entry
\* whose type cannot be read ends the scan with an error.  <<>> is None.
RECURSIVE ScanLoop(_, _, _)
ScanLoop(f, entries, last_version_dir) ==
    IF entries = <<>>
    THEN [err |-> FALSE, last_version_dir |-> last_version_dir]
    ELSE LET entry == Head(entries) IN
         IF f[entry] = "unknown"
         THEN [err |-> TRUE, last_version_dir |-> last_version_dir]
         ELSE ScanLoop(f, Tail(entries),
                       IF f[entry] = "dir" THEN <<entry>> ELSE last_version_dir)

\* The Err handed to the caller instead of being logged.
LogErrReturned(rec, what) ==
    [rec EXCEPT !.pc = "done", !.logged = what, !.result = Result("Err", what, NoBinary)]

\* .log_err(): the Err is logged and the caller gets None.
LogErr(rec, what) ==
    [rec EXCEPT !.pc = "done", !.logged = what, !.result = Result("None", "none", NoBinary)]

\* `?` in a function returning Result: the Err goes to the caller.
Propagate(rec, what) ==
    [rec EXCEPT !.pc = "done", !.result = Result("Err", what, NoBinary)]

(* ------------------------------- calls --------------------------------- *)

CacheOps == {"cached_server_binary", "installation_test_binary"}

NoCall ==
    [op |-> "none", version |-> NoVersion, result |-> Pending, installs |-> <<>>,
     solo |-> TRUE]

Summary(rec) ==
    [op |-> rec.op, version |-> rec.version, result |-> rec.result,
     installs |-> rec.installs, solo |-> rec.solo]

\* lookups counts the npm_package_latest_version calls of the call, answer
\* is what the transport answered, value the Box<dyn Any> handed back.
IdleCall ==
    [op |-> "none", version |-> NoVersion, container_dir |-> ContainerDir,
     pc |-> "idle", solo |-> TRUE, fs0 |-> EmptyFs, after |-> NoCall,
     observed |-> {}, installs |-> <<>>, install |-> "none", written |-> {},
     entries |-> <<>>, last_version_dir |-> <<>>, server_path |-> <<>>,
     runtime |-> "none", logged |-> "none", result |-> Pending,
     lookups |-> 0, answer |-> "none", value |-> NoVersion]

Running(c) == calls[c].pc \notin {"idle", "done"}

\* No configuration call made, no path matched.
NoMatch == [path |-> <<>>, tag |-> "none", result |-> <<>>]

\* A host with nothing registered; the installer and the cache never read it.
BareHost == [action_names |-> {}, staff_mode |-> FALSE, language_names |-> {}]

Init ==
    /\ fs \in InitialDisks
    /\ calls = [c \in Callers |-> IdleCall]
    /\ last = NoCall
    /\ started = 0
    /\ host = BareHost
    /\ docs = <<>>
    /\ matched = NoMatch

\* The host calls an operation: the future is created, nothing has run yet.
\* Task ids are interchangeable, so a call made while no other call is
\* running takes the lowest id.  The host keeps nothing of a returned call
\* but its result: the record of the call before is kept in `after`.
Begin(c, op, version) ==
    /\ ~Running(c)
    /\ \A d \in Callers : d < c => Running(d)
    /\ started < MaxCalls
    /\ started' = started + 1
    /\ calls' = [d \in Callers |->
                   IF d = c
                   THEN [IdleCall EXCEPT !.op = op, !.version = version, !.pc = "start",
                                         !.solo = \A e \in Callers \ {c} : ~Running(e),
                                         !.fs0 = fs, !.after = last]
                   ELSE IF Running(d) THEN [calls[d] EXCEPT !.solo = FALSE] ELSE IdleCall]
    /\ UNCHANGED <<fs, last>>
    /\ UNCHANGED configVars

\* A step of call c takes its record to next; a record at "done" has
\* returned its result to the host.
Advance(c, next) ==
    /\ calls' = [calls EXCEPT ![c] = next]
    /\ last' = IF next.pc = "done" THEN Summary(next) ELSE last
    /\ UNCHANGED configVars

fetch_server_binary(c) == \E v \in VersionValues : Begin(c, "fetch_server_binary", v)

cached_server_binary(c) == Begin(c, "cached_server_binary", NoVersion)

installation_test_binary(c) == Begin(c, "installation_test_binary", NoVersion)

\* fetch_server_binary up to the install call: the downcast (unwrap panics
\* on another type), the join, the existence check, and the
\* npm_install_packages call when the check finds nothing.
\* The check made against the version asked for: after a fetch of another
\* version the package is installed again.
FetchCheckVersioned(rec, f) ==
    LET server_path == FetchServerPath(rec.container_dir) IN
    IF rec.version.type # "String"
    THEN [rec EXCEPT !.pc = "done", !.result = Result("Panic", "none", NoBinary)]
    ELSE IF \/ MetadataIsErr(f, server_path)
            \/ rec.after.op = "fetch_server_binary" /\ rec.after.version # rec.version
    THEN [rec EXCEPT !.pc = "npm_install", !.server_path = server_path,
                     !.install = "running",
                     !.installs = Append(@, [package |-> PackageName,
                                             version |-> rec.version.value,
                                             directory |-> rec.container_dir])]
    ELSE [rec EXCEPT !.pc = "binary_path", !.server_path = server_path,
                     !.observed = @ \cup {server_path}]

FetchCheckResult(rec, f) ==
    LET server_path == FetchServerPath(rec.container_dir) IN
    IF rec.version.type # "String"
    THEN [rec EXCEPT !.pc = "done", !.result = Result("Panic", "none", NoBinary)]
    ELSE IF MetadataIsErr(f, server_path)
    THEN [rec EXCEPT !.pc = "npm_install", !.server_path = server_path,
                     !.install = "running",
                     !.installs = Append(@, [package |-> PackageName,
                                             version |-> rec.version.value,
                                             directory |-> rec.container_dir])]
    ELSE [rec EXCEPT !.pc = "binary_path", !.server_path = server_path,
                     !.observed = @ \cup {server_path}]

\* The same step behind a directory lock held for the length of an install.
FetchCheckLocked(c) ==
    /\ \A d \in Callers \ {c} : calls[d].pc # "npm_install"
    /\ calls[c].pc = "start"
    /\ calls[c].op = "fetch_server_binary"
    /\ Advance(c, FetchCheckResult(calls[c], fs))
    /\ UNCHANGED <<fs, started>>

FetchCheck(c) ==
    /\ calls[c].pc = "start"
    /\ calls[c].op = "fetch_server_binary"
    /\ Advance(c, FetchCheckResult(calls[c], fs))
    /\ UNCHANGED <<fs, started>>

\* The transport writes one more piece of the package under the directory.
NpmInstallWrite(c) ==
    LET rec == calls[c] IN
    /\ rec.pc = "npm_install"
    /\ IsDir(fs, rec.container_dir)
    /\ \E part \in InstallParts \ rec.written :
          /\ fs' = NpmWrite(fs, rec.container_dir, part)
          /\ calls' = [calls EXCEPT ![c] = [rec EXCEPT !.written = @ \cup {part}]]
    /\ UNCHANGED <<last, started>>
    /\ UNCHANGED configVars

\* npm_install_packages returns Ok once everything is written.
NpmInstallOk(c) ==
    LET rec == calls[c] IN
    /\ rec.pc = "npm_install"
    /\ rec.written = InstallParts
    /\ Advance(c, [rec EXCEPT !.pc = "binary_path", !.install = "ok"])
    /\ UNCHANGED <<fs, started>>

\* The install fails and the error is logged, not returned.
InstallErrSwallowed(rec) == [rec EXCEPT !.pc = "binary_path"]

\* fetch_server_binary: `.await?` on npm_install_packages returning Err.
InstallErrResult(rec) == Propagate(rec, "InstallFailed")

\* npm_install_packages returns Err, at any point of the install.
NpmInstallErr(c) ==
    LET rec == calls[c] IN
    /\ rec.pc = "npm_install"
    /\ Advance(c, InstallErrResult([rec EXCEPT !.install = "err"]))
    /\ UNCHANGED <<fs, started>>

\* fetch_server_binary: node.binary_path().await? and the Ok(..) returned.
FetchBinaryPathResult(rec, ok) ==
    IF ok
    THEN [rec EXCEPT !.pc = "done", !.runtime = "ok",
                     !.result = Result("Ok", "none",
                                       LanguageServerBinary(NodeBinaryPath, rec.server_path))]
    ELSE Propagate([rec EXCEPT !.runtime = "err"], "RuntimeUnavailable")

FetchBinaryPath(c) ==
    /\ calls[c].pc = "binary_path"
    /\ calls[c].op = "fetch_server_binary"
    /\ \E ok \in BOOLEAN : Advance(c, FetchBinaryPathResult(calls[c], ok))
    /\ UNCHANGED <<fs, started>>

\* get_cached_server_binary from read_dir to server_path.exists(), with the
\* entries in the order read_dir yields them.
\* The scan going on to the runtime without looking for the entry point.
GetCachedScanUnchecked(rec, f, entries) ==
    LET scan == ScanLoop(f, entries, <<>>)
        seen == [rec EXCEPT !.entries = entries]
    IN  IF scan.err
        THEN LogErr(seen, "file_type")
        ELSE IF scan.last_version_dir = <<>>
        THEN LogErr(seen, "no cached binary")
        ELSE [seen EXCEPT !.pc = "binary_path",
                          !.last_version_dir = scan.last_version_dir[1],
                          !.server_path = CachedServerPath(scan.last_version_dir[1])]

GetCachedScanResult(rec, f, entries) ==
    LET scan == ScanLoop(f, entries, <<>>)
        seen == [rec EXCEPT !.entries = entries]
    IN  IF scan.err
        THEN LogErr(seen, "file_type")
        ELSE IF scan.last_version_dir = <<>>
        THEN LogErr(seen, "no cached binary")
        ELSE LET last_version_dir == scan.last_version_dir[1]
                 server_path == CachedServerPath(last_version_dir)
                 found == [seen EXCEPT !.last_version_dir = last_version_dir,
                                       !.server_path = server_path]
             IN  IF Exists(f, server_path)
                 THEN [found EXCEPT !.pc = "binary_path",
                                    !.observed = @ \cup {server_path}]
                 ELSE LogErr(found, "missing executable")

GetCachedScan(c) ==
    LET rec == calls[c] IN
    /\ rec.pc = "start"
    /\ rec.op \in CacheOps
    /\ IF ~IsDir(fs, rec.container_dir)
       THEN Advance(c, LogErr(rec, "read_dir"))
       ELSE \E entries \in Orders(Children(fs, rec.container_dir)) :
               Advance(c, GetCachedScanResult(rec, fs, entries))
    /\ UNCHANGED <<fs, started>>

\* installation_test_binary handing the runtime's Err to its caller.
GetCachedBinaryPathTestStrict(rec, ok) ==
    IF ok
    THEN [rec EXCEPT !.pc = "done", !.runtime = "ok",
                     !.result = Result("Some", "none",
                                       LanguageServerBinary(NodeBinaryPath, rec.server_path))]
    ELSE IF rec.op = "installation_test_binary"
    THEN Propagate([rec EXCEPT !.runtime = "err"], "binary_path")
    ELSE LogErr([rec EXCEPT !.runtime = "err"], "binary_path")

\* get_cached_server_binary: node.binary_path().await? inside the closure,
\* then .log_err() on the closure's result.
GetCachedBinaryPathResult(rec, ok) ==
    IF ok
    THEN [rec EXCEPT !.pc = "done", !.runtime = "ok",
                     !.result = Result("Some", "none",
                                       LanguageServerBinary(NodeBinaryPath, rec.server_path))]
    ELSE LogErr([rec EXCEPT !.runtime = "err"], "binary_path")

GetCachedBinaryPath(c) ==
    /\ calls[c].pc = "binary_path"
    /\ calls[c].op \in CacheOps
    /\ \E ok \in BOOLEAN : Advance(c, GetCachedBinaryPathResult(calls[c], ok))
    /\ UNCHANGED <<fs, started>>

\* The host drops the future of fetch_server_binary at an await point;
\* whatever was written stays.  (A dropped get_cached_server_binary has
\* written nothing and returns nothing.)
Cancel(c) ==
    LET rec == calls[c] IN
    /\ Running(c)
    /\ rec.op = "fetch_server_binary"
    /\ Advance(c, [rec EXCEPT !.pc = "done",
                              !.result = Result("Cancelled", "none", NoBinary)])
    /\ UNCHANGED <<fs, started>>

\* The steps the executor can take for a call that is under way.
Step(c) ==
    \/ FetchCheck(c)
    \/ NpmInstallWrite(c)
    \/ NpmInstallOk(c)
    \/ NpmInstallErr(c)
    \/ FetchBinaryPath(c)
    \/ GetCachedScan(c)
    \/ GetCachedBinaryPath(c)

Next ==
    \/ \E c \in Callers : fetch_server_binary(c)
    \/ \E c \in Callers : cached_server_binary(c)
    \/ \E c \in Callers : installation_test_binary(c)
    \/ \E c \in Callers : FetchCheck(c)
    \/ \E c \in Callers : NpmInstallWrite(c)
    \/ \E c \in Callers : NpmInstallOk(c)
    \/ \E c \in Callers : NpmInstallErr(c)
    \/ \E c \in Callers : FetchBinaryPath(c)
    \/ \E c \in Callers : GetCachedScan(c)
    \/ \E c \in Callers : GetCachedBinaryPath(c)
    \/ \E c \in Callers : Cancel(c)

Spec == Init /\ [][Next]_vars

(* ------------------------- the version resolver ------------------------ *)

\* What NodeRuntime::npm_package_latest_version may answer: a published
\* version, or a failure.
LatestAnswers == Versions \cup {"err"}

fetch_latest_server_version(c) == Begin(c, "fetch_latest_server_version", NoVersion)

\* The lookup asked once more after a first failure.
LatestVersionRetried(rec, answer) ==
    LET asked == [rec EXCEPT !.lookups = @ + 1, !.answer = answer] IN
    IF answer = "err"
    THEN IF rec.lookups = 0 THEN asked ELSE Propagate(asked, "UpstreamUnavailable")
    ELSE [asked EXCEPT !.pc = "done", !.value = StringVersion(answer),
                       !.result = Result("Ok", "none", NoBinary)]

\* fetch_latest_server_version:
\* Ok(Box::new(self.node.npm_package_latest_version(..).await?) as Box<_>)
LatestVersionResult(rec, answer) ==
    LET asked == [rec EXCEPT !.lookups = @ + 1, !.answer = answer] IN
    IF answer = "err"
    THEN Propagate(asked, "UpstreamUnavailable")
    ELSE [asked EXCEPT !.pc = "done", !.value = StringVersion(answer),
                       !.result = Result("Ok", "none", NoBinary)]

LatestVersion(c) ==
    /\ calls[c].pc = "start"
    /\ calls[c].op = "fetch_latest_server_version"
    /\ \E answer \in LatestAnswers : Advance(c, LatestVersionResult(calls[c], answer))
    /\ UNCHANGED <<fs, started>>

\* The host resolving a version and materialising a binary for it.
ResolverNext ==
    \/ \E c \in Callers : fetch_latest_server_version(c)
    \/ \E c \in Callers : LatestVersion(c)
    \/ \E c \in Callers : fetch_server_binary(c)
    \/ \E c \in Callers : FetchCheck(c)
    \/ \E c \in Callers : NpmInstallWrite(c)
    \/ \E c \in Callers : NpmInstallOk(c)
    \/ \E c \in Callers : NpmInstallErr(c)
    \/ \E c \in Callers : FetchBinaryPath(c)
    \/ \E c \in Callers : Cancel(c)

ResolverSpec == Init /\ [][ResolverNext]_vars

(* --------------- lookups over a directory installed into --------------- *)

\* The container directories in which an earlier session left version
\* 1.2.3 installed, beside whatever the entry 1.2.2 is.
LookupDisks == {d \in InitialDisks : IsDir(d, Join(ContainerDir, <<"1.2.3">>))}

LookupInit == Init /\ fs \in LookupDisks

LookupSpec == LookupInit /\ [][Next]_vars

(* ---------------------- the configuration builder --------------------- *)

\* Number of configuration calls recorded in one behaviour.
MaxConfigCalls == 2

\* The action names and the language names a host may hold.
ActionNames == {"editor::Copy"}

LanguageNames == {"JSON", "Rust"}

\* The registry's names at some time: the languages are registered in one
\* order, and dropped in the reverse one.
LanguageSets == {{}, {"JSON"}, LanguageNames}

Hosts ==
    [action_names : SUBSET ActionNames, staff_mode : BOOLEAN,
     language_names : LanguageSets]

\* util::paths: the host's configuration directory and the files in it.  A
\* path is the sequence of its components, "/" the root of an absolute one.
CONFIG_DIR == <<"/", "home", ".config", "zed">>

SETTINGS == Join(CONFIG_DIR, <<"settings.json">>)

KEYMAP == Join(CONFIG_DIR, <<"keymap.json">>)

LOCAL_SETTINGS_RELATIVE_PATH == <<".zed", "settings.json">>

\* Paths schema_file_match is tried on: the example of the specification
\* and paths with fewer ancestors.
MatchPaths ==
    {<<"/", "a", "b", "c", "settings.json">>, <<"a", "b">>, <<"/", "a">>, <<"a">>}

\* Path::parent: None (<<>>) for the root and for the empty path.
Parent(path) ==
    IF Len(path) = 0 \/ path = <<"/">> THEN <<>>
    ELSE <<SubSeq(path, 1, Len(path) - 1)>>

\* Path::strip_prefix: Err (<<>>) when base is no prefix of path.
StripPrefix(path, base) ==
    IF Len(base) <= Len(path) /\ SubSeq(path, 1, Len(base)) = base
    THEN <<SubSeq(path, Len(base) + 1, Len(path))>>
    ELSE <<>>

Matched(path, result) == [path |-> path, tag |-> "ok", result |-> result]

MatchPanicked(path) == [path |-> path, tag |-> "panic", result |-> <<>>]

\* Only the file's own directory stripped.
SchemaFileMatchOneLevel(path) ==
    LET parent == Parent(path) IN
    IF Len(parent) = 0 THEN MatchPanicked(path)
    ELSE LET stripped == StripPrefix(path, parent[1]) IN
         IF Len(stripped) = 0 THEN MatchPanicked(path)
         ELSE Matched(path, stripped[1])

\* path.strip_prefix(path.parent().unwrap().parent().unwrap()).unwrap()
schema_file_match(path) ==
    LET parent == Parent(path) IN
    IF Len(parent) = 0 THEN MatchPanicked(path)
    ELSE LET grandparent == Parent(parent[1]) IN
         IF Len(grandparent) = 0 THEN MatchPanicked(path)
         ELSE LET stripped == StripPrefix(path, grandparent[1]) IN
              IF Len(stripped) = 0 THEN MatchPanicked(path)
              ELSE Matched(path, stripped[1])

\* SettingsStore::json_schema(&SettingsJsonSchemaParams { language_names,
\* staff_mode }, cx): a document made from its parameters.
SettingsJsonSchema(language_names, staff_mode) ==
    [schema |-> "settings", language_names |-> language_names, staff_mode |-> staff_mode]

\* KeymapFile::generate_json_schema(&action_names)
KeymapJsonSchema(action_names) == [schema |-> "keymap", action_names |-> action_names]

\* The formatter switched off.
InitializationOptionsNoFormatter == [provideFormatter |-> FALSE]

\* initialization_options: Some(json!({"provideFormatter": true}))
InitializationOptions == [provideFormatter |-> TRUE]

\* The keymap binding put before the settings binding.
WorkspaceConfigurationKeymapFirst(action_names, staff_mode, language_names) ==
    [json |->
        [format |-> [enable |-> TRUE],
         schemas |->
            <<[fileMatch |-> <<schema_file_match(KEYMAP).result>>,
               schema |-> KeymapJsonSchema(action_names)],
              [fileMatch |-> <<schema_file_match(SETTINGS).result,
                               LOCAL_SETTINGS_RELATIVE_PATH>>,
               schema |-> SettingsJsonSchema(language_names, staff_mode)]>>]]

\* workspace_configuration: the serde_json::json!({..}) it returns.
WorkspaceConfiguration(action_names, staff_mode, language_names) ==
    [json |->
        [format |-> [enable |-> TRUE],
         schemas |->
            <<[fileMatch |-> <<schema_file_match(SETTINGS).result,
                               LOCAL_SETTINGS_RELATIVE_PATH>>,
               schema |-> SettingsJsonSchema(language_names, staff_mode)],
              [fileMatch |-> <<schema_file_match(KEYMAP).result>>,
               schema |-> KeymapJsonSchema(action_names)]>>]]

ConfigInit ==
    /\ fs = MkFs({<<ContainerDir, "dir">>})
    /\ calls = [c \in Callers |-> IdleCall]
    /\ last = NoCall
    /\ started = 0
    /\ host \in Hosts
    /\ docs = <<>>
    /\ matched = NoMatch

\* A configuration call returning doc is recorded with the host state it ran in.
Record(op, doc) ==
    /\ Len(docs) < MaxConfigCalls
    /\ docs' = Append(docs, [op |-> op, host |-> host, doc |-> doc])
    /\ UNCHANGED <<host, matched>>
    /\ UNCHANGED binaryVars

initialization_options == Record("initialization_options", InitializationOptions)

\* The document of the first call kept and handed out again.
WorkspaceConfigurationCached ==
    LET earlier == {i \in 1..Len(docs) : docs[i].op = "workspace_configuration"} IN
    IF earlier = {}
    THEN Record("workspace_configuration",
                WorkspaceConfiguration(host.action_names, host.staff_mode,
                                       host.language_names))
    ELSE Record("workspace_configuration",
                docs[CHOOSE i \in earlier : \A j \in earlier : i <= j].doc)

\* workspace_configuration: cx.all_action_names(), cx.is_staff() and
\* self.languages.language_names() are read, then the document is built.
workspace_configuration ==
    Record("workspace_configuration",
           WorkspaceConfiguration(host.action_names, host.staff_mode, host.language_names))

\* schema_file_match applied to a path.
SchemaFileMatch ==
    /\ \E path \in MatchPaths : matched' = schema_file_match(path)
    /\ UNCHANGED <<host, docs>>
    /\ UNCHANGED binaryVars

\* The host registers or drops actions, the staff flag flips, languages are
\* added to or removed from the registry.
ActionsChange ==
    /\ \E names \in SUBSET ActionNames \ {host.action_names} :
          host' = [host EXCEPT !.action_names = names]
    /\ UNCHANGED <<docs, matched>>
    /\ UNCHANGED binaryVars

StaffChange ==
    /\ host' = [host EXCEPT !.staff_mode = ~@]
    /\ UNCHANGED <<docs, matched>>
    /\ UNCHANGED binaryVars

LanguagesChange ==
    /\ \E names \in LanguageSets \ {host.language_names} :
          host' = [host EXCEPT !.language_names = names]
    /\ UNCHANGED <<docs, matched>>
    /\ UNCHANGED binaryVars

ConfigNext ==
    \/ initialization_options
    \/ workspace_configuration
    \/ SchemaFileMatch
    \/ ActionsChange
    \/ StaffChange
    \/ LanguagesChange

ConfigSpec == ConfigInit /\ [][ConfigNext]_vars

(* ------------------------------ properties ----------------------------- *)

Done(c) == calls[c].pc = "done"

IsFetch(rec) == rec.op = "fetch_server_binary"

IsCache(rec) == rec.op \in CacheOps

\* The call returned a value to the host (it was not dropped and did not panic).
Returned(result) == result.tag \in {"Ok", "Err", "Some", "None"}

HasBinary(result) == result.tag \in {"Ok", "Some"}

\* The entry-point path a returned descriptor refers to.
EntryPointOf(result) == result.binary.arguments[1]

\* The subdirectories of dir that hold the entry point at the fixed path.
ValidDirs(f, dir) == {d \in Children(f, dir) : f[d] = "dir" /\ Exists(f, Join(d, SERVER_PATH))}

SubDirs(f, dir) == {d \in Children(f, dir) : f[d] = "dir"}

\* The directory that comes last in an enumeration; <<>> when there is none.
LastDirIn(f, entries) ==
    LET idx == {i \in 1..Len(entries) : f[entries[i]] = "dir"} IN
    IF idx = {} THEN <<>>
    ELSE <<entries[CHOOSE i \in idx : \A j \in idx : j <= i]>>

\* C1: a cache lookup that directly follows a fetch_server_binary which
\* installed the package and returned a descriptor returns a descriptor for
\* the entry point that fetch installed.
C1_FallbackAfterInstall ==
    \A c \in Callers :
        LET rec == calls[c] IN
        (/\ Done(c) /\ IsCache(rec) /\ rec.solo /\ rec.runtime # "err"
         /\ IsFetch(rec.after) /\ rec.after.result.tag = "Ok"
         /\ Len(rec.after.installs) = 1)
        => /\ rec.result.tag = "Some"
           /\ EntryPointOf(rec.result) = EntryPointOf(rec.after.result)

\* C2 as stated: over a container holding only subdirectories, the lookup
\* returns a descriptor for a valid subdirectory, and returns empty only if
\* no subdirectory is valid (the runtime path accessor succeeding).
C2_ValidOneIfAnyExists ==
    \A c \in Callers :
        LET rec == calls[c]
            valid == ValidDirs(rec.fs0, rec.container_dir)
        IN  (/\ Done(c) /\ IsCache(rec) /\ rec.solo /\ rec.runtime # "err"
             /\ IsDir(rec.fs0, rec.container_dir)
             /\ Children(rec.fs0, rec.container_dir) = SubDirs(rec.fs0, rec.container_dir))
            => /\ rec.result.tag = "Some" =>
                    \E d \in valid : EntryPointOf(rec.result) = Join(d, SERVER_PATH)
               /\ rec.result.tag = "None" => valid = {}

\* C2 amended: over a container holding only subdirectories, the lookup
\* returns a descriptor exactly when the subdirectory enumerated last is
\* valid, and then the descriptor refers to that one; it returns empty when
\* there is no subdirectory or the one enumerated last is invalid, whatever
\* the others hold.
C2_LastEnumeratedDecides ==
    \A c \in Callers :
        LET rec == calls[c]
            valid == ValidDirs(rec.fs0, rec.container_dir)
            lastdir == LastDirIn(rec.fs0, rec.entries)
        IN  (/\ Done(c) /\ IsCache(rec) /\ rec.solo /\ rec.runtime # "err"
             /\ IsDir(rec.fs0, rec.container_dir)
             /\ Children(rec.fs0, rec.container_dir) = SubDirs(rec.fs0, rec.container_dir))
            => IF lastdir # <<>> /\ lastdir[1] \in valid
               THEN /\ rec.result.tag = "Some"
                    /\ EntryPointOf(rec.result) = Join(lastdir[1], SERVER_PATH)
               ELSE rec.result.tag = "None"

\* A lookup over a valid and an invalid subdirectory that returned a
\* descriptor.
C2_Witness ==
    \E c \in Callers :
        LET rec == calls[c]
            valid == ValidDirs(rec.fs0, rec.container_dir)
        IN  /\ Done(c) /\ IsCache(rec) /\ rec.solo /\ rec.runtime = "ok"
            /\ Children(rec.fs0, rec.container_dir) = SubDirs(rec.fs0, rec.container_dir)
            /\ valid # {}
            /\ SubDirs(rec.fs0, rec.container_dir) \ valid # {}
            /\ rec.result.tag = "Some"

\* Two fetch_server_binary calls in sequence, same version, same directory,
\* both returned to the host.
TwoFetchesInSequence(rec) ==
    /\ IsFetch(rec) /\ rec.pc = "done" /\ rec.solo
    /\ IsFetch(rec.after) /\ rec.after.solo
    /\ rec.after.version = rec.version
    /\ Returned(rec.result) /\ Returned(rec.after.result)

C4_EntryPointConfirmed ==
    \A c \in Callers :
        LET rec == calls[c] IN
        (Done(c) /\ HasBinary(rec.result)) => EntryPointOf(rec.result) \in rec.observed

\* C5: a fetch_server_binary that follows one cancelled during its install
\* skips the install only if the package is completely installed, installs
\* again otherwise, and a descriptor it returns is for a complete install.
C5_CancellationRecovery ==
    \A c \in Callers :
        LET rec == calls[c] IN
        (/\ Done(c) /\ IsFetch(rec) /\ rec.solo /\ rec.version.type = "String"
         /\ IsFetch(rec.after) /\ rec.after.solo
         /\ rec.after.result.tag = "Cancelled" /\ Len(rec.after.installs) = 1
         /\ Returned(rec.result))
        => /\ rec.installs = <<>> <=> InstallComplete(rec.fs0, rec.container_dir)
           /\ rec.result.tag = "Ok" => InstallComplete(fs, rec.container_dir)

\* Two fetch_server_binary calls that overlapped, neither dropped, neither
\* told of a failure by the transport.
BothFetchedConcurrently ==
    \A c \in Callers :
        /\ Done(c) /\ IsFetch(calls[c]) /\ ~calls[c].solo
        /\ calls[c].version.type = "String"
        /\ calls[c].result.tag # "Cancelled" /\ calls[c].result.err = "none"

\* C6: two concurrent fetch_server_binary calls whose transport calls
\* succeed both return the same descriptor with the entry point on disk,
\* and a call that is under way always has a step it can take.
C6_ConcurrentInstallers ==
    /\ \A c \in Callers : Running(c) => ENABLED Step(c)
    /\ BothFetchedConcurrently =>
          /\ \A c \in Callers : calls[c].result.tag = "Ok"
          /\ \A c, d \in Callers : calls[c].result.binary = calls[d].result.binary
          /\ \A c \in Callers : Exists(fs, EntryPointOf(calls[c].result))

\* Both calls passed the existence check and both invoked install.
C6_Witness ==
    /\ BothFetchedConcurrently
    /\ \A c \in Callers : Len(calls[c].installs) = 1 /\ calls[c].result.tag = "Ok"

\* The call began alone on a container directory with no subdirectory.
OnFreshContainer(rec) ==
    /\ rec.pc = "done" /\ rec.solo
    /\ IsDir(rec.fs0, rec.container_dir)
    /\ SubDirs(rec.fs0, rec.container_dir) = {}

\* C7: on a container directory with no subdirectory the lookup returns
\* empty, and fetch_server_binary invokes install exactly once with the
\* package name, its version and the directory, and, the transport not
\* failing, returns the runtime path with the arguments
\* [container_dir/SERVER_PATH, "--stdio"].
C7_FreshContainer ==
    \A c \in Callers :
        LET rec == calls[c] IN
        /\ (OnFreshContainer(rec) /\ IsCache(rec)) => rec.result.tag = "None"
        /\ (OnFreshContainer(rec) /\ IsFetch(rec) /\ Returned(rec.result))
           => /\ rec.installs = <<[package |-> "vscode-json-languageserver",
                                   version |-> rec.version.value,
                                   directory |-> rec.container_dir]>>
              /\ rec.result.tag \in {"Ok", "Err"}
              /\ rec.result.tag = "Ok" =>
                    rec.result.binary =
                        [path |-> NodeBinaryPath,
                         arguments |->
                            <<rec.container_dir \o
                                <<"node_modules", "vscode-json-languageserver", "bin",
                                  "vscode-json-languageserver">>,
                              "--stdio">>]

\* A fetch on a fresh container that installed and returned a descriptor.
C7_Witness ==
    \E c \in Callers :
        LET rec == calls[c] IN
        /\ OnFreshContainer(rec) /\ IsFetch(rec)
        /\ Children(rec.fs0, rec.container_dir) = {}
        /\ rec.result.tag = "Ok" /\ Len(rec.installs) = 1

\* C8: when the transport's install fails, fetch_server_binary returns
\* InstallFailed, no descriptor, and never asks for the runtime path.
C8_InstallFailurePropagates ==
    \A c \in Callers :
        LET rec == calls[c] IN
        (IsFetch(rec) /\ rec.install = "err")
        => /\ rec.pc = "done"
           /\ rec.result = Result("Err", "InstallFailed", NoBinary)
           /\ rec.runtime = "none"

\* A fetch whose install failed.
C8_Witness ==
    \E c \in Callers :
        /\ Done(c) /\ IsFetch(calls[c]) /\ calls[c].install = "err"
        /\ Len(calls[c].installs) = 1

\* C9: in every operation a failure of the runtime path accessor is
\* returned to the caller as an error.
C9_RuntimeUnavailablePropagates ==
    \A c \in Callers :
        LET rec == calls[c] IN
        (Done(c) /\ rec.runtime = "err")
        => rec.result.tag = "Err" /\ rec.result.err = "RuntimeUnavailable"

\* The container states of a cache miss, as the call found them.
CacheMissState(rec) ==
    \/ ~IsDir(rec.fs0, rec.container_dir)
    \/ SubDirs(rec.fs0, rec.container_dir) = {}
    \/ \E e \in Children(rec.fs0, rec.container_dir) : rec.fs0[e] = "unknown"
    \/ /\ rec.last_version_dir # <<>>
       /\ ~Exists(rec.fs0, Join(rec.last_version_dir, SERVER_PATH))

\* C10: cached_server_binary and installation_test_binary never return an
\* error and never panic, and on a missing or unreadable directory, no
\* subdirectory, an entry of unreadable type or a selected subdirectory
\* without the entry point they return empty.
C10_CacheMissIsAValue ==
    \A c \in Callers :
        LET rec == calls[c] IN
        IsCache(rec)
        => /\ rec.result.tag \in {"Pending", "Some", "None"}
           /\ (Done(c) /\ rec.solo /\ CacheMissState(rec)) => rec.result.tag = "None"

\* Lookups that missed for each of the reasons.
C10_Witness ==
    \E c \in Callers :
        LET rec == calls[c] IN
        /\ Done(c) /\ IsCache(rec) /\ rec.solo /\ CacheMissState(rec)
        /\ rec.logged = "missing executable"
        /\ ValidDirs(rec.fs0, rec.container_dir) # {}

IsLatest(rec) == rec.op = "fetch_latest_server_version"

\* C11: neither fetch_latest_server_version nor fetch_server_binary ever
\* panics, whatever the transport answers and whatever type-erased version
\* value fetch_server_binary is given.
C11_NeverPanics ==
    \A c \in Callers :
        (IsLatest(calls[c]) \/ IsFetch(calls[c])) => calls[c].result.tag # "Panic"

\* C12: fetch_latest_server_version asks the transport for the latest
\* version exactly once and never again: a failure comes back as
\* UpstreamUnavailable after that one call, a success hands back the
\* transport's version as it is, and the call installs nothing and leaves
\* the container directory as it was.
C12_SingleLookupNoRetry ==
    \A c \in Callers :
        LET rec == calls[c] IN
        IsLatest(rec)
        => /\ rec.lookups <= 1
           /\ rec.installs = <<>> /\ rec.install = "none" /\ rec.written = {}
           /\ Done(c) =>
                /\ rec.lookups = 1
                /\ rec.answer = "err" =>
                      /\ rec.result = Result("Err", "UpstreamUnavailable", NoBinary)
                      /\ rec.value = NoVersion
                /\ rec.answer # "err" =>
                      /\ rec.result.tag = "Ok"
                      /\ rec.value = [type |-> "String", value |-> rec.answer]
                /\ rec.solo => fs = rec.fs0

\* A lookup that failed and returned after its one call.
C12_Witness ==
    \E c \in Callers :
        /\ Done(c) /\ IsLatest(calls[c]) /\ calls[c].answer = "err"
        /\ calls[c].lookups = 1 /\ calls[c].result.tag = "Err"
        /\ Children(fs, ContainerDir) # {}

WorkspaceCalls == {i \in 1..Len(docs) : docs[i].op = "workspace_configuration"}

InitializationCalls == {i \in 1..Len(docs) : docs[i].op = "initialization_options"}

\* The last two components of a path: the file and the directory it is in.
LastTwo(path) == <<path[Len(path) - 1], path[Len(path)]>>

\* C13: whatever the language names, the action names and the staff flag,
\* workspace_configuration returns formatting enabled and exactly two schema
\* bindings: first [settings path, local settings path] with the settings
\* schema, then [keymap path] with the keymap schema.
C13_TwoBindingsInOrder ==
    \A i \in WorkspaceCalls :
        LET json == docs[i].doc.json IN
        /\ json.format.enable = TRUE
        /\ Len(json.schemas) = 2
        /\ json.schemas[1].fileMatch = <<LastTwo(SETTINGS), <<".zed", "settings.json">>>>
        /\ json.schemas[1].schema.schema = "settings"
        /\ json.schemas[2].fileMatch = <<LastTwo(KEYMAP)>>
        /\ json.schemas[2].schema.schema = "keymap"

\* A call made with two languages and an action registered, in staff mode.
C13_Witness ==
    \E i \in WorkspaceCalls :
        /\ docs[i].host.language_names = LanguageNames
        /\ docs[i].host.action_names = ActionNames
        /\ docs[i].host.staff_mode

\* C14: the document of a workspace_configuration call is made from the
\* host state at the time of that call: calls under equal host state return
\* equal documents, and every call carries the action names, the staff flag
\* and the language names the host held when it ran, whatever earlier calls
\* returned.
C14_ReadFreshEveryCall ==
    /\ \A i, j \in WorkspaceCalls :
          docs[i].host = docs[j].host => docs[i].doc = docs[j].doc
    /\ \A i \in WorkspaceCalls :
          LET schemas == docs[i].doc.json.schemas IN
          /\ schemas[1].schema.language_names = docs[i].host.language_names
          /\ schemas[1].schema.staff_mode = docs[i].host.staff_mode
          /\ schemas[2].schema.action_names = docs[i].host.action_names

\* Two calls with a change of every host input between them, and different
\* documents.
C14_Witness ==
    \E i, j \in WorkspaceCalls :
        /\ i < j
        /\ docs[i].host.language_names # docs[j].host.language_names
        /\ docs[i].host.action_names # docs[j].host.action_names
        /\ docs[i].host.staff_mode # docs[j].host.staff_mode
        /\ docs[i].doc # docs[j].doc

\* C15 as stated: /a/b/c/settings.json gives b/c/settings.json.
C15_ThreeComponentsKept ==
    matched.path = <<"/", "a", "b", "c", "settings.json">>
    => matched.tag = "ok" /\ matched.result = <<"b", "c", "settings.json">>

\* C15 amended: /a/b/c/settings.json gives c/settings.json: the prefix
\* stripped is the parent of the parent, so what is left is the file name
\* after the name of its directory, for every path with two ancestors; a
\* path with fewer makes the function panic.
C15_LastTwoComponentsKept ==
    /\ matched.path = <<"/", "a", "b", "c", "settings.json">>
       => matched.tag = "ok" /\ matched.result = <<"c", "settings.json">>
    /\ matched.tag = "ok"
       => /\ Len(matched.path) >= 2
          /\ matched.path[1] = "/" => Len(matched.path) >= 3
          /\ matched.result = LastTwo(matched.path)
    /\ matched.tag = "panic"
       => \/ Len(matched.path) < 2
          \/ matched.path[1] = "/" /\ Len(matched.path) < 3

\* schema_file_match applied to the example path.
C15_Witness ==
    /\ matched.path = <<"/", "a", "b", "c", "settings.json">>
    /\ matched.tag = "ok"

\* C17: every initialization_options call returns the same document, and
\* that document has provideFormatter = true.
C17_InitializationOptionsConstant ==
    /\ \A i \in InitializationCalls : docs[i].doc = [provideFormatter |-> TRUE]
    /\ \A i, j \in InitializationCalls : docs[i].doc = docs[j].doc

\* Two initialization_options calls with the host changed between them.
C17_Witness ==
    \E i, j \in InitializationCalls : i < j /\ docs[i].host # docs[j].host

\* C16: installation_test_binary and cached_server_binary are one lookup:
\* over the same directory, the same enumeration and the same answer of the
\* runtime they return the same result and log the same, and neither
\* installs or writes.
C16_TestLookupSameAsCached ==
    \A c, d \in Callers :
        LET cached == calls[c]
            test == calls[d]
        IN  (/\ Done(c) /\ Done(d)
             /\ cached.op = "cached_server_binary"
             /\ test.op = "installation_test_binary"
             /\ cached.fs0 = test.fs0
             /\ cached.entries = test.entries
             /\ cached.runtime = test.runtime)
            => /\ test.result = cached.result
               /\ test.logged = cached.logged
               /\ test.observed = cached.observed
               /\ test.installs = <<>> /\ cached.installs = <<>>
               /\ fs = test.fs0

\* Both lookups done over one directory, once with the runtime failing.
C16_Witness ==
    \E c, d \in Callers :
        /\ Done(c) /\ Done(d)
        /\ calls[c].op = "cached_server_binary"
        /\ calls[d].op = "installation_test_binary"
        /\ calls[c].fs0 = calls[d].fs0
        /\ calls[c].entries = calls[d].entries
        /\ calls[c].runtime = "err" /\ calls[d].runtime = "err"

\* A lookup that ran alone over a readable directory of readable entries.
ScannedAlone(rec) ==
    /\ IsCache(rec) /\ rec.pc = "done" /\ rec.solo
    /\ IsDir(rec.fs0, rec.container_dir)
    /\ \A e \in Children(rec.fs0, rec.container_dir) : rec.fs0[e] # "unknown"

\* C18: the lookup selects the directory that comes last in the enumeration
\* and nothing else: an entry that is not a directory is never selected,
\* and the result is decided by the selected directory alone (a descriptor
\* for its entry point iff that exists and the runtime answers), whatever
\* the names and contents of the other entries.
C18_LastDirectorySelected ==
    \A c \in Callers :
        LET rec == calls[c]
            lastdir == LastDirIn(rec.fs0, rec.entries)
        IN  /\ (IsCache(rec) /\ rec.last_version_dir # <<>>)
               => IsDir(fs, rec.last_version_dir)
            /\ ScannedAlone(rec)
               => IF lastdir = <<>>
                  THEN rec.last_version_dir = <<>> /\ rec.result.tag = "None"
                  ELSE /\ rec.last_version_dir = lastdir[1]
                       /\ rec.result.tag = "Some"
                          <=> /\ Exists(rec.fs0, Join(lastdir[1], SERVER_PATH))
                              /\ rec.runtime = "ok"
                       /\ rec.result.tag = "Some"
                          => EntryPointOf(rec.result) = Join(lastdir[1], SERVER_PATH)

\* The older version selected and returned although the newer one is a
\* valid directory too, enumerated first.
C18_Witness ==
    \E c \in Callers :
        LET rec == calls[c] IN
        /\ ScannedAlone(rec)
        /\ rec.entries = <<Join(rec.container_dir, <<"1.2.3">>),
                           Join(rec.container_dir, <<"1.2.2">>)>>
        /\ Join(rec.container_dir, <<"1.2.3">>) \in ValidDirs(rec.fs0, rec.container_dir)
        /\ rec.last_version_dir = Join(rec.container_dir, <<"1.2.2">>)
        /\ rec.result.tag = "Some"

\* A fetch_server_binary call, alone so far, that started with the entry
\* point in place.
FetchOverInstalled(rec) ==
    /\ IsFetch(rec) /\ rec.solo
    /\ Exists(rec.fs0, FetchServerPath(rec.container_dir))

\* C19: with the entry point at container_dir/SERVER_PATH, fetch_server_binary
\* makes no install call and leaves the directory as it is, for every
\* version token; called for another version than the one a previous call
\* installed, it returns (the runtime answering) the descriptor of the
\* installed one and does not install the requested one.
C19_InstalledVersionWins ==
    \A c \in Callers :
        LET rec == calls[c] IN
        FetchOverInstalled(rec)
        => /\ rec.installs = <<>> /\ rec.install = "none" /\ rec.written = {}
           /\ fs = rec.fs0
           /\ (rec.pc = "done" /\ rec.runtime = "ok")
              => /\ rec.result.tag = "Ok"
                 /\ EntryPointOf(rec.result) = FetchServerPath(rec.container_dir)
           /\ (/\ rec.result.tag = "Ok"
               /\ IsFetch(rec.after) /\ rec.after.result.tag = "Ok"
               /\ rec.after.version # rec.version)
              => rec.result.binary = rec.after.result.binary

\* Version 1.2.3 asked for after a call installed 1.2.2 and returned.
C19_Witness ==
    \E c \in Callers :
        LET rec == calls[c] IN
        /\ FetchOverInstalled(rec) /\ Done(c)
        /\ rec.version = StringVersion("1.2.3")
        /\ IsFetch(rec.after) /\ rec.after.version = StringVersion("1.2.2")
        /\ Len(rec.after.installs) = 1 /\ rec.after.result.tag = "Ok"
        /\ rec.result.tag = "Ok"

\* C20: cached_server_binary and installation_test_binary only read: no
\* install call, no latest-version call, nothing written, the directory
\* as it was; the runtime's path accessor is the one call they make, and
\* only after the entry point of the selected directory was found.
C20_LookupsOnlyRead ==
    \A c \in Callers :
        LET rec == calls[c] IN
        IsCache(rec)
        => /\ rec.installs = <<>> /\ rec.install = "none" /\ rec.written = {}
           /\ rec.lookups = 0
           /\ rec.solo => fs = rec.fs0
           /\ (rec.pc = "binary_path" \/ rec.runtime # "none")
              => /\ rec.last_version_dir # <<>>
                 /\ rec.server_path = Join(rec.last_version_dir, SERVER_PATH)
                 /\ rec.server_path \in rec.observed

\* A lookup that asked the runtime and returned a descriptor, over a
\* directory a fetch had installed into.
C20_Witness ==
    \E c \in Callers :
        LET rec == calls[c] IN
        /\ Done(c) /\ IsCache(rec) /\ rec.solo
        /\ rec.runtime = "ok" /\ rec.result.tag = "Some"
        /\ IsFetch(rec.after) /\ Len(rec.after.installs) = 1

====
